---- MODULE Spec2Model ----
(***************************************************************************)
(* tri.named_struct: schema-constrained structs.                           *)
(*                                                                         *)
(* A class statement under @declarative collects the NamedStructField      *)
(* declarations of the class body into Meta.members; NamedStruct.__init__  *)
(* binds positional and keyword arguments to the members; __getitem__,     *)
(* __setitem__ and __setattr__ guard every access by membership.           *)
(*                                                                         *)
(* Python values are modelled as strings: None is "None", the marker       *)
(* Absent stands for "no such key in the dict" and is never a value.       *)
(***************************************************************************)
EXTENDS Integers, Sequences, FiniteSets, TLC

\* ---------------------------------------------------------------- bounds
MaxClasses == 4       \* classes defined in one run, the two roots included
MaxBody == 2          \* field declarations in one class body
MaxArgs == 3          \* positional arguments of one constructor call

\* ---------------------------------------------------------------- values
None == "None"
Absent == "<absent>"
FieldNames == {"foo", "bar"}
AllNames == FieldNames \cup {"boink"}
ArgVals == {"1", "2"}
DefaultVal == "default"
TypeNames == {"MyNamedStruct"}

NumStr(n) == <<"0", "1", "2", "3", "4", "5", "6", "7", "8", "9">>[n + 1]

Range(s) == {s[i] : i \in 1..Len(s)}

SeqsUpTo(S, n) == UNION {[1..k -> S] : k \in 0..n}

NoExc == [type |-> "none", args |-> <<>>]
Raise(t, a) == [type |-> t, args |-> a]

\* ------------------------------------------------------ field descriptors
\* A declaration of a class body: name = NamedStructField(<kw>=...).
Decls == [name : FieldNames, kw : {"none", "default", "default_factory"}]

Bodies ==
    {b \in SeqsUpTo(Decls, MaxBody) :
        \A i, j \in 1..Len(b) : i /= j => b[i].name /= b[j].name}

\* NamedStructField.__init__(self, default=None): the only keyword the
\* signature takes is default; any other one is a TypeError of the call.
NamedStructField(d) ==
    CASE d.kw = "none" -> [exc |-> NoExc, field |-> [name |-> d.name, default |-> None]]
      [] d.kw = "default" ->
            [exc |-> NoExc, field |-> [name |-> d.name, default |-> DefaultVal]]
      [] OTHER ->
            [exc |-> Raise("TypeError",
                           <<"__init__() got an unexpected keyword argument '", d.kw, "'">>),
             field |-> [name |-> d.name, default |-> None]]

\* Meta.members of a class: the members of its base updated, in declaration
\* order, with the fields of its own body (an ordered-dict update: a known
\* name keeps its position and takes the new descriptor, a new name is
\* appended).
RECURSIVE Update(_, _)
Update(members, fields) ==
    IF fields = <<>> THEN members
    ELSE LET f == Head(fields)
             at == {i \in 1..Len(members) : members[i].name = f.name}
             next == IF at = {} THEN Append(members, f)
                     ELSE [i \in 1..Len(members) |->
                              IF i \in at THEN f ELSE members[i]]
         IN Update(next, Tail(fields))

Keys(members) == {members[i].name : i \in 1..Len(members)}

\* ------------------------------------------------------------------ state
VARIABLES
    classes,   \* the classes defined so far, each with its Meta.members
    phase,     \* "none": no instance; "pre": allocated, __init__ running;
               \* "live": constructed
    itype,     \* index in classes of the instance's class (0: no instance)
    store,     \* the instance's dict: AllNames -> value, Absent for no key
    frozen,    \* the instance refuses writes
    exc,       \* the exception the last operation raised (NoExc: none)
    ret,       \* the value the last read returned (Absent: none)
    last       \* the last operation and its arguments

vars == <<classes, phase, itype, store, frozen, exc, ret, last>>

NoKw == [n \in AllNames |-> Absent]
EmptyDict == [n \in AllNames |-> Absent]
KeySet(d) == {n \in AllNames : d[n] /= Absent}

Op(op, t, name, val, args, kwargs, body) ==
    [op |-> op, t |-> t, name |-> name, val |-> val, args |-> args,
     kwargs |-> kwargs, body |-> body]

NamedStructRoot ==
    [name |-> "NamedStruct", base |-> 0, body |-> <<>>, members |-> <<>>,
     frozen |-> FALSE]

NamedFrozenStructRoot ==
    [name |-> "NamedFrozenStruct", base |-> 0, body |-> <<>>, members |-> <<>>,
     frozen |-> TRUE]

\* ------------------------------------------------------- class definition
\* The fields a class body creates, in declaration order; the first
\* descriptor call that raises ends the class statement.
BodyExc(body) ==
    LET bad == {i \in 1..Len(body) : NamedStructField(body[i]).exc /= NoExc}
    IN IF bad = {} THEN NoExc
       ELSE NamedStructField(body[CHOOSE i \in bad : \A j \in bad : i <= j]).exc

BodyFields(body) == [i \in 1..Len(body) |-> NamedStructField(body[i]).field]

\* @declarative(NamedStructField): Meta.members of the new class.
Declarative(base, fields) == Update(base.members, fields)

\* A class record: its name, the index of its base, its body as written,
\* its Meta.members, and whether it descends from the frozen root.
NewClass(base, b, typename, body, fields) ==
    [name |-> typename, base |-> b, body |-> body,
     members |-> Declarative(base, fields), frozen |-> base.frozen]

\* class <typename>(<classes[b]>): <body>
DefineClass(b, typename, body) ==
    /\ Len(classes) < MaxClasses
    /\ phase = "none"
    /\ b \in 1..Len(classes)
    /\ last' = Op("class", b, typename, Absent, <<>>, NoKw, body)
    /\ exc' = BodyExc(body)
    /\ classes' = IF BodyExc(body) = NoExc
                  THEN Append(classes, NewClass(classes[b], b, typename, body, BodyFields(body)))
                  ELSE classes
    /\ ret' = Absent
    /\ UNCHANGED <<phase, itype, store, frozen>>

\* The class dict {field: NamedStructField() for field in field_names}: a
\* name given twice keeps the descriptor created last.
DictOfFields(field_names) ==
    LET keep == {i \in 1..Len(field_names) :
                    \A j \in (i + 1)..Len(field_names) : field_names[j] /= field_names[i]}
        F[i \in 0..Len(field_names)] ==
            IF i = 0 THEN <<>>
            ELSE IF i \in keep
                 THEN Append(F[i - 1], [name |-> field_names[i], kw |-> "none"])
                 ELSE F[i - 1]
    IN F[Len(field_names)]

named_struct(field_names, typename) ==
    /\ Len(classes) < MaxClasses
    /\ phase = "none"
    /\ last' = Op("named_struct", 1, typename, Absent, field_names, NoKw, <<>>)
    /\ exc' = NoExc
    /\ classes' = Append(classes, NewClass(classes[1], 1, typename, DictOfFields(field_names),
                                   BodyFields(DictOfFields(field_names))))
    /\ ret' = Absent
    /\ UNCHANGED <<phase, itype, store, frozen>>

\* ----------------------------------------------------------- construction
\* Meta.members of the instance's class.
_get_members == classes[itype].members

Min(a, b) == IF a <= b THEN a ELSE b

\* The positional values bound from the last member backwards.
ZipFromLast(members, args) ==
    [n \in AllNames |->
        IF \E i \in 1..Min(Len(members), Len(args)) :
              members[Len(members) + 1 - i].name = n
        THEN args[CHOOSE i \in 1..Min(Len(members), Len(args)) :
                     members[Len(members) + 1 - i].name = n]
        ELSE Absent]

\* dict(zip(members.keys(), args))
Zip(members, args) ==
    [n \in AllNames |->
        IF \E i \in 1..Min(Len(members), Len(args)) : members[i].name = n
        THEN args[CHOOSE i \in 1..Min(Len(members), Len(args)) : members[i].name = n]
        ELSE Absent]

\* The keyword arguments added to the positional ones.
Merge(values_by_name, kwargs) ==
    [n \in AllNames |-> IF kwargs[n] /= Absent THEN kwargs[n] ELSE values_by_name[n]]

\* Every field the call left out set to None, whatever its declaration.
WithNone(members, values_by_name) ==
    [n \in AllNames |->
        IF n \in Keys(members)
        THEN IF values_by_name[n] /= Absent THEN values_by_name[n] ELSE None
        ELSE Absent]

\* {name: values_by_name.get(name, field.default) for name, field in members.items()}
WithDefaults(members, values_by_name) ==
    [n \in AllNames |->
        IF n \in Keys(members)
        THEN IF values_by_name[n] /= Absent THEN values_by_name[n]
             ELSE members[CHOOSE i \in 1..Len(members) : members[i].name = n].default
        ELSE Absent]

TooMany(members, args) == Len(args) > Len(members)

Duplicates(members, args, kwargs) ==
    {n \in AllNames : kwargs[n] /= Absent /\ Zip(members, args)[n] /= Absent}

Unexpected(members, args, kwargs) ==
    {n \in KeySet(Merge(Zip(members, args), kwargs)) : n \notin Keys(members)}

\* The outcomes of binding a call's arguments: the exception raised, or the
\* values handed to the dict constructor.  A dict is walked in no fixed
\* order, so any offending keyword may be the one reported.
Bind(members, args, kwargs) ==
    IF TooMany(members, args)
    THEN {[exc |-> Raise("ValueError", <<"Too many arguments">>), values |-> EmptyDict]}
    ELSE IF Duplicates(members, args, kwargs) /= {}
    THEN {[exc |-> Raise("ValueError",
                         <<"Field \"", n, "\" already given as positional argument">>),
           values |-> EmptyDict] : n \in Duplicates(members, args, kwargs)}
    ELSE IF Unexpected(members, args, kwargs) /= {}
    THEN {[exc |-> Raise("KeyError", <<n>>), values |-> EmptyDict] :
             n \in Unexpected(members, args, kwargs)}
    ELSE {[exc |-> NoExc,
           values |-> WithDefaults(members, Merge(Zip(members, args), kwargs))]}

\* dict.__init__(**values) on a dict that may hold keys already.
DictInit(d, values) ==
    [n \in AllNames |-> IF values[n] /= Absent THEN values[n] ELSE d[n]]

\* cls.__new__: the instance exists, its constructor has not run yet.
New(t) ==
    /\ phase /= "pre"
    /\ t \in 1..Len(classes)
    /\ phase' = "pre"
    /\ itype' = t
    /\ store' = EmptyDict
    /\ frozen' = FALSE
    /\ exc' = NoExc
    /\ ret' = Absent
    /\ last' = Op("new", t, "", Absent, <<>>, NoKw, <<>>)
    /\ UNCHANGED classes

\* NamedStruct.__init__(self, *args, **kwargs)
Construct(args, kwargs) ==
    /\ phase = "pre"
    /\ \E out \in Bind(_get_members, args, kwargs) :
          /\ exc' = out.exc
          /\ IF out.exc = NoExc
             THEN /\ phase' = "live"
                  /\ store' = DictInit(store, out.values)
                  /\ frozen' = classes[itype].frozen
                  /\ UNCHANGED itype
             ELSE /\ phase' = "none"
                  /\ store' = EmptyDict
                  /\ itype' = 0
                  /\ UNCHANGED frozen
    /\ ret' = Absent
    /\ last' = Op("init", itype, "", Absent, args, kwargs, <<>>)
    /\ UNCHANGED classes

\* ----------------------------------------------------------------- access
\* An exception that leaves a constructor ends the construction: there is
\* no instance.  Raised on a constructed instance it changes nothing.
AfterRaise ==
    IF phase = "pre"
    THEN phase' = "none" /\ itype' = 0 /\ store' = EmptyDict /\ frozen' = FALSE
    ELSE UNCHANGED <<phase, itype, store, frozen>>

\* NamedStruct.__getitem__(self, key), over dict.__getitem__
GetItemResult(members, d, key) ==
    IF key \notin Keys(members) THEN [exc |-> Raise("KeyError", <<key>>), ret |-> Absent]
    ELSE IF d[key] = Absent THEN [exc |-> Raise("KeyError", <<key>>), ret |-> Absent]
    ELSE [exc |-> NoExc, ret |-> d[key]]

\* Struct.__getattr__(self, k): self[k], a KeyError turned into an
\* AttributeError.
GetAttrResult(cls, d, k) ==
    LET r == GetItemResult(cls.members, d, k)
    IN IF r.exc.type = "KeyError"
       THEN [exc |-> Raise("AttributeError",
                           <<"'", cls.name, "' object has no attribute '", k, "'">>),
             ret |-> Absent]
       ELSE r

\* The plain dict write, with no membership check before it.
SetItemUnchecked(members, d, key, value) ==
    [exc |-> NoExc, store |-> [d EXCEPT ![key] = value]]

\* NamedStruct.__setitem__(self, key, value), over dict.__setitem__
SetItemResult(members, d, key, value) ==
    IF key \notin Keys(members) THEN [exc |-> Raise("KeyError", <<key>>), store |-> d]
    ELSE [exc |-> NoExc, store |-> [d EXCEPT ![key] = value]]

\* The attribute write that lets the KeyError of the item write through.
SetAttrKeyError(cls, d, k, v) == SetItemResult(cls.members, d, k, v)

\* NamedStruct.__setattr__(self, k, v)
SetAttrResult(cls, d, k, v) ==
    LET r == SetItemResult(cls.members, d, k, v)
    IN IF r.exc.type = "KeyError"
       THEN [exc |-> Raise("AttributeError",
                           <<"'", cls.name, "' object has no attribute '", k, "'">>),
             store |-> d]
       ELSE r

\* A frozen instance that takes writes to its declared fields.
FrozenWriteThrough(cls, d, k, v) == SetItemResult(cls.members, d, k, v)

\* A write to a frozen instance, in either style.
FrozenWriteResult(cls, d, k, v) ==
    [exc |-> Raise("TypeError", <<"'", cls.name, "' object is immutable">>), store |-> d]

Read(op, k, r) ==
    /\ phase \in {"pre", "live"}
    /\ exc' = r.exc
    /\ ret' = r.ret
    /\ last' = Op(op, itype, k, Absent, <<>>, NoKw, <<>>)
    /\ IF r.exc = NoExc THEN UNCHANGED <<phase, itype, store, frozen>> ELSE AfterRaise
    /\ UNCHANGED classes

Write(op, k, v, r) ==
    /\ phase \in {"pre", "live"}
    /\ phase = "pre" => ~classes[itype].frozen
    /\ exc' = r.exc
    /\ ret' = Absent
    /\ last' = Op(op, itype, k, v, <<>>, NoKw, <<>>)
    /\ IF r.exc = NoExc
       THEN store' = r.store /\ UNCHANGED <<phase, itype, frozen>>
       ELSE AfterRaise
    /\ UNCHANGED classes

\* s[key]
GetItem(key) == Read("getitem", key, GetItemResult(_get_members, store, key))

\* s.k
GetAttr(k) == Read("getattr", k, GetAttrResult(classes[itype], store, k))

\* s[key] = value
SetItem(key, value) ==
    Write("setitem", key, value,
          IF frozen THEN FrozenWriteResult(classes[itype], store, key, value)
          ELSE SetItemResult(_get_members, store, key, value))

\* s.k = v
SetAttr(k, v) ==
    Write("setattr", k, v,
          IF frozen THEN FrozenWriteResult(classes[itype], store, k, v)
          ELSE SetAttrResult(classes[itype], store, k, v))

\* A frozen struct built as a copy of a constructed mutable one: the same
\* fields holding the same values, and no write accepted from then on.
FreezeCopy ==
    /\ phase = "live"
    /\ ~frozen
    /\ frozen' = TRUE
    /\ exc' = NoExc
    /\ ret' = Absent
    /\ last' = Op("freeze", itype, "", Absent, <<>>, NoKw, <<>>)
    /\ UNCHANGED <<classes, phase, itype, store>>

\* ---------------------------------------------------------- specifications
KwArgs == [AllNames -> ArgVals \cup {Absent}]
ArgLists == SeqsUpTo(ArgVals, MaxArgs)
NameLists == SeqsUpTo(FieldNames, MaxBody)

Roots == <<NamedStructRoot, NamedFrozenStructRoot>>

Idle ==
    /\ phase = "none"
    /\ itype = 0
    /\ store = EmptyDict
    /\ frozen = FALSE
    /\ exc = NoExc
    /\ ret = Absent
    /\ last = Op("import", 0, "", Absent, <<>>, NoKw, <<>>)

\* The classes of a program that defines one struct class, either root its
\* base, each field of its body declared with or without a default.
Programs ==
    {Append(Roots, NewClass(Roots[b], b, typename, body, BodyFields(body))) :
        b \in 1..Len(Roots), typename \in TypeNames,
        body \in {x \in Bodies : BodyExc(x) = NoExc}}

\* The program's classes are defined; it has made no instance yet.
Init == classes \in Programs /\ Idle

Next ==
    \/ \E t \in 1..Len(classes) : New(t)
    \/ \E args \in ArgLists, kwargs \in KwArgs : Construct(args, kwargs)
    \/ \E key \in AllNames : GetItem(key)
    \/ \E k \in AllNames : GetAttr(k)
    \/ \E key \in AllNames, value \in ArgVals : SetItem(key, value)
    \/ \E k \in AllNames, v \in ArgVals : SetAttr(k, v)
    \/ FreezeCopy

Spec == Init /\ [][Next]_vars

\* Class definition: the module is imported, class statements run, then
\* the class defined last is instantiated with positional arguments.  The
\* first class statement derives from a root, each later one from the class
\* before it; named_struct always derives from NamedStruct.
InitSchema == classes = Roots /\ Idle

\* The calls C(), C("1"), C("1", "2"), ...
Numbered == {[i \in 1..k |-> NumStr(i)] : k \in 0..MaxArgs}

Bases == IF Len(classes) = Len(Roots) THEN 1..Len(Roots) ELSE {Len(classes)}

NextSchema ==
    \/ \E b \in Bases, typename \in TypeNames, body \in Bodies :
          DefineClass(b, typename, body)
    \/ \E field_names \in NameLists, typename \in {"NamedStruct"} :
          named_struct(field_names, typename)
    \/ New(Len(classes))
    \/ \E args \in Numbered : Construct(args, NoKw)

SpecSchema == InitSchema /\ [][NextSchema]_vars

\* ------------------------------------------------------ schema properties
\* The classes from the root of class t down to t itself.
RECURSIVE Ancestry(_)
Ancestry(t) == IF t = 0 THEN <<>> ELSE Append(Ancestry(classes[t].base), t)

\* Place <<k, p>> is declaration p of the body of the k-th class of an
\* ancestry; places are ordered from the root down, then by declaration.
Earlier(a, b) == a[1] < b[1] \/ (a[1] = b[1] /\ a[2] < b[2])

SchemaOf(t) ==
    LET m == classes[t].members
        anc == Ancestry(t)
        places == UNION {{<<k, p>> : p \in 1..Len(classes[anc[k]].body)} : k \in 1..Len(anc)}
        decl(a) == classes[anc[a[1]]].body[a[2]]
        field(a) == [name |-> decl(a).name,
                     default |-> IF decl(a).kw = "default" THEN DefaultVal ELSE None]
        declared(n) == {a \in places : field(a).name = n}
        first(n) == CHOOSE a \in declared(n) : \A b \in declared(n) : ~Earlier(b, a)
        final(n) == CHOOSE a \in declared(n) : \A b \in declared(n) : ~Earlier(a, b)
    IN /\ \A i, j \in 1..Len(m) : i /= j => m[i].name /= m[j].name
       /\ Keys(m) = {field(a).name : a \in places}
       /\ \A i, j \in 1..Len(m) : i < j => Earlier(first(m[i].name), first(m[j].name))
       /\ \A i \in 1..Len(m) : m[i] = field(final(m[i].name))
       /\ classes[t].base /= 0 =>
             LET inherited == classes[classes[t].base].members
             IN /\ Len(inherited) <= Len(m)
                /\ \A i \in 1..Len(inherited) : m[i].name = inherited[i].name
                /\ classes[t].body = <<>> => m = inherited

\* C10: the schema of every class holds each name declared in its ancestry
\* once, in the order of the names' first declarations from the root down,
\* with the descriptor of the last declaration; inherited fields keep their
\* places before the new ones, a class with an empty body has its base's
\* schema, and positional arguments are bound in schema order.
C10_SchemaOrder ==
    /\ \A t \in 1..Len(classes) : SchemaOf(t)
    /\ (last.op = "init" /\ phase = "live") =>
          \A i \in 1..Len(last.args) :
              store[classes[itype].members[i].name] = last.args[i]

\* A class two levels down that re-declares an inherited field with another
\* default and adds one, constructed with two positional values.
C10_Witness ==
    /\ Len(classes) = 4
    /\ classes[3].members = <<[name |-> "foo", default |-> None]>>
    /\ classes[4].body = <<[name |-> "bar", kw |-> "none"],
                           [name |-> "foo", kw |-> "default"]>>
    /\ classes[4].members = <<[name |-> "foo", default |-> DefaultVal],
                              [name |-> "bar", default |-> None]>>
    /\ phase = "live" /\ itype = 4
    /\ last.op = "init" /\ last.args = <<"1", "2">>
    /\ store["foo"] = "1" /\ store["bar"] = "2"

\* C8: a field can be declared with default_factory: the class statement
\* that does so defines the class, with that field in its schema (and each
\* instance then takes a fresh value from the factory).
C8_DefaultFactory ==
    \A i \in 1..Len(last.body) :
        (last.op = "class" /\ last.body[i].kw = "default_factory") =>
            /\ exc = NoExc
            /\ classes[Len(classes)].name = last.name
            /\ last.body[i].name \in Keys(classes[Len(classes)].members)

\* ---------------------------------------------------- instance properties
\* The default that the ancestry of class t declares last for name n.
DeclaredDefault(t, n) ==
    LET anc == Ancestry(t)
        places == UNION {{<<k, p>> : p \in 1..Len(classes[anc[k]].body)} : k \in 1..Len(anc)}
        declared == {a \in places : classes[anc[a[1]]].body[a[2]].name = n}
        final == CHOOSE a \in declared : \A b \in declared : ~Earlier(a, b)
    IN IF classes[anc[final[1]]].body[final[2]].kw = "default" THEN DefaultVal ELSE None

\* Of the last constructor call: the schema it was bound against, the
\* names it gave by keyword, by position, twice, and outside the schema.
CallSchema == classes[last.t].members
CallKeywords == {n \in AllNames : last.kwargs[n] /= Absent}
CallPositional == {CallSchema[i].name : i \in 1..Min(Len(last.args), Len(CallSchema))}
CallTwice == CallKeywords \cap CallPositional
CallUnknown == CallKeywords \ Keys(CallSchema)
CallFits == Len(last.args) <= Len(CallSchema)

\* C1: a constructed instance has exactly the keys of its class's schema,
\* whatever reads and writes, failed or not, came after its construction.
C1_KeySet == phase = "live" => KeySet(store) = Keys(classes[itype].members)

C1_Witness ==
    /\ phase = "live"
    /\ last.op = "setitem" /\ last.name = "boink" /\ exc.type = "KeyError"
    /\ Keys(classes[itype].members) = {"foo", "bar"}

\* C2: a call with k positional values, no more than the schema has fields,
\* and keywords naming declared fields outside the first k, gives the i-th
\* field the i-th positional value, each keyword's field its value and
\* every other field its declared default (None when none was declared):
\* one value per schema field and nothing else.
C2_Binding ==
    (last.op = "init" /\ CallFits /\ CallTwice = {} /\ CallUnknown = {}) =>
        /\ exc = NoExc /\ phase = "live" /\ itype = last.t
        /\ \A i \in 1..Len(last.args) : store[CallSchema[i].name] = last.args[i]
        /\ \A n \in CallKeywords : store[n] = last.kwargs[n]
        /\ \A n \in Keys(CallSchema) \ (CallKeywords \cup CallPositional) :
              store[n] = DeclaredDefault(last.t, n)
        /\ KeySet(store) = Keys(CallSchema)

\* The call C("1") of a class declaring foo and bar, bar with a default.
C2_Witness ==
    /\ last.op = "init" /\ last.args = <<"1">> /\ CallKeywords = {}
    /\ phase = "live"
    /\ classes[itype].body = <<[name |-> "foo", kw |-> "none"],
                               [name |-> "bar", kw |-> "default"]>>
    /\ store["foo"] = "1" /\ store["bar"] = DefaultVal

\* C3: a call with more positional values than the schema has fields fails
\* with a TypeError whose message gives the type name, the number of fields
\* and the number of values given, and makes no instance.
C3_TooMany ==
    (last.op = "init" /\ ~CallFits) =>
        /\ exc.type = "TypeError"
        /\ {classes[last.t].name, NumStr(Len(CallSchema)), NumStr(Len(last.args))}
              \subseteq Range(exc.args)
        /\ phase = "none"

\* C4: a call that gives a declared field both by position and by keyword
\* fails with a TypeError naming the field and the type, and makes no
\* instance.
C4_Duplicate ==
    (last.op = "init" /\ CallFits /\ CallTwice /= {}) =>
        /\ exc.type = "TypeError"
        /\ \E n \in CallTwice : n \in Range(exc.args)
        /\ classes[last.t].name \in Range(exc.args)
        /\ phase = "none"

\* C5: a call with a keyword outside the schema, and neither of the two
\* faults above, fails with a TypeError naming that keyword, and makes no
\* instance.
C5_Unexpected ==
    (last.op = "init" /\ CallFits /\ CallTwice = {} /\ CallUnknown /= {}) =>
        /\ exc.type = "TypeError"
        /\ \E n \in CallUnknown : n \in Range(exc.args)
        /\ phase = "none"

\* C6: on a constructed mutable instance a read or a write of a name
\* outside the schema raises AttributeError in attribute style and KeyError
\* in subscript style and leaves the stored values as they were; a name of
\* the schema passes the same check in both styles.
C6_UnknownField ==
    [][(phase = "live" /\ ~frozen
            /\ last'.op \in {"getitem", "getattr", "setitem", "setattr"}) =>
         IF last'.name \notin Keys(classes[itype].members)
         THEN /\ exc'.type = IF last'.op \in {"getattr", "setattr"}
                             THEN "AttributeError" ELSE "KeyError"
              /\ store' = store /\ phase' = "live" /\ ret' = Absent
         ELSE exc' = NoExc]_vars

C6_Witness ==
    /\ phase = "live" /\ ~frozen
    /\ last.op = "setattr" /\ last.name = "boink" /\ exc.type = "AttributeError"
    /\ store["foo"] = "1" /\ store["boink"] = Absent

C9_PreSet ==
    [][(phase = "pre" /\ phase' = "live") =>
         \A n \in KeySet(store) :
            LET m == classes[itype].members
                at == {i \in 1..Len(last'.args) : m[i].name = n}
            IN store'[n] = IF at /= {} THEN last'.args[CHOOSE i \in at : TRUE]
                           ELSE IF last'.kwargs[n] /= Absent THEN last'.kwargs[n]
                           ELSE store[n]]_vars

====
